---- MODULE Spec2Model ----
(***************************************************************************)
(* Model of package unixdirents (src/unixdirents/dirents.go): the Dirents  *)
(* iterator, which reads raw directory-entry records with unix.ReadDirent  *)
(* into a caller-owned buffer, and direntsInBuf, which decodes the filled  *)
(* part of the buffer record by record.                                    *)
(*                                                                         *)
(* The buffer is modelled byte by byte with the linux/amd64 layout of      *)
(* unix.Dirent that the source cites: Ino at 0 (8 bytes), Off at 8         *)
(* (8 bytes), Reclen at 16 (2 bytes), Type at 18 (1 byte), Name at 19.     *)
(* Integers are decoded little-endian, the native order of that target.    *)
(*                                                                         *)
(* Further down: NewReadDirIter (src/iter.go and src/unnamed/part_002),    *)
(* specification SpecIter, and NewReadDirIterRecursive                     *)
(* (src/iter_recursive.go), specifications SpecWalk and FairSpecWalk.      *)
(***************************************************************************)
EXTENDS Integers, Sequences, FiniteSets

\* ------------------------------------------------------------------------
\* Bounds

\* Number of reads that may return a non-empty segment.
MaxReads == 3

\* ------------------------------------------------------------------------
\* Layout constants of unix.Dirent (dirents.go lines 86-95)

inoOff == 0
reclenOff == 16
typeOff == 18
nameOff == 19

inoSize == 8
reclenSize == 2
typeSize == 1

\* Width of the Off field, which lies between Ino and Reclen.
offSize == 8

\* ------------------------------------------------------------------------
\* DType values (dirents.go lines 17-34)

DTypeUnknown == 0
DTypeNamedPipe == 1
DTypeCharDevice == 2
DTypeDir == 4
DTypeBlockDevice == 6
DTypeRegularFile == 8
DTypeSymlink == 10
DTypeSocket == 12

\* ------------------------------------------------------------------------
\* Bytes

NUL == 0
Dot == 46
ChA == 97
ChB == 98
ChX == 120

RECURSIVE Zeros(_)
Zeros(k) == IF k = 0 THEN <<>> ELSE <<NUL>> \o Zeros(k - 1)

\* buf[lo:] of a Go slice, lo counted from 0.
SliceFrom(b, lo) == SubSeq(b, lo + 1, Len(b))

\* buf[:hi] of a Go slice.
SliceTo(b, hi) == SubSeq(b, 1, hi)

\* binary.NativeEndian.Uint16(b): the first two bytes, low byte first.
Uint16(b) == b[1] + 256 * b[2]

\* binary.NativeEndian.Uint64(b): the first eight bytes, low byte first.
RECURSIVE LittleEndian(_, _)
LittleEndian(b, k) == IF k = 0 THEN 0 ELSE b[1] + 256 * LittleEndian(Tail(b), k - 1)

Uint64(b) == LittleEndian(b, 8)

\* bytes.IndexByte(b, c): index (from 0) of the first c in b, or -1.
RECURSIVE IndexByte(_, _)
IndexByte(b, c) ==
    IF b = <<>> THEN -1
    ELSE IF Head(b) = c THEN 0
    ELSE LET r == IndexByte(Tail(b), c) IN IF r = -1 THEN -1 ELSE r + 1

\* Variant: the name field is taken to end in exactly one NUL byte.
TruncateAtNul_DropLast(name) == SliceTo(name, Len(name) - 1)

\* Lines 121-123: the name is cut at its first NUL byte, when it has one.
TruncateAtNul(name) ==
    LET i == IndexByte(name, NUL) IN IF i # -1 THEN SliceTo(name, i) ELSE name

\* Variant: only "." is recognised.
IsUselessName_DotOnly(name) == name = <<Dot>>

\* Variant: every name that starts with a dot is taken for useless.
IsUselessName_Hidden(name) == name # <<>> /\ Head(name) = Dot

\* Line 126: the names "." and "..".
IsUselessName(name) == name = <<Dot>> \/ name = <<Dot, Dot>>

\* Variant: the test for an absent file is missing.
FileAbsent_Never(ino) == FALSE

\* Line 116: an inode number of 0 marks a file absent in the directory.
FileAbsent(ino) == ino = 0

\* Variant: type tags without a named constant are reported as unknown.
DType_Canonical(b) ==
    IF b \in {DTypeUnknown, DTypeNamedPipe, DTypeCharDevice, DTypeDir,
              DTypeBlockDevice, DTypeRegularFile, DTypeSymlink, DTypeSocket}
    THEN b ELSE DTypeUnknown

\* Line 132: DType(dType), a conversion between two 8-bit unsigned types.
DType(b) == b % 256

\* Variant: the name is taken from the rest of the segment, not from the
\* record.
NameField_Unbounded(rest, reclen) == SliceFrom(rest, nameOff)

\* Lines 112 and 120: rec[nameOff:], the name field of the record.
NameField(rest, reclen) == SliceFrom(SliceTo(rest, reclen), nameOff)

\* Line 107: the loop goes on while the record-length field fits.
HasReclenField(rest) == Len(rest) >= reclenOff + reclenSize

\* Variant: a record that ends exactly at the end of the segment is
\* taken for truncated.
Truncated_OffByOne(reclen, rest) == reclen = 0 \/ reclen >= Len(rest)

\* Variant: a record length of 0 is not tested for.
Truncated_TooLongOnly(reclen, rest) == reclen > Len(rest)

\* Line 109: the record length is 0 or exceeds what is left of the segment.
Truncated(reclen, rest) == reclen = 0 \/ reclen > Len(rest)

\* Variant: the slice is not moved past the record.
Advance_None(c, reclen) == c

\* Line 113: the rest of the segment after the record.
Advance(c, reclen) == c + reclen

\* ------------------------------------------------------------------------
\* The directory stream as the operating system writes it.  A record is
\* described by its fields; reclen is the value of its record-length field,
\* which a well-formed record sets to its own length.

RECURSIVE ToBytes(_, _)
ToBytes(v, k) == IF k = 0 THEN <<>> ELSE <<v % 256>> \o ToBytes(v \div 256, k - 1)

RecLen(name, pad) == nameOff + Len(name) + pad

Rec(ino, typ, name, pad) ==
    [ino |-> ino, typ |-> typ, name |-> name, pad |-> pad,
     reclen |-> RecLen(name, pad)]

BadRec(ino, typ, name, pad, reclen) ==
    [ino |-> ino, typ |-> typ, name |-> name, pad |-> pad, reclen |-> reclen]

EncodeRec(d) ==
    ToBytes(d.ino, inoSize) \o ToBytes(d.ino + 1, offSize)
        \o ToBytes(d.reclen, reclenSize) \o <<d.typ>> \o d.name \o Zeros(d.pad)

RECURSIVE EncodeRecs(_)
EncodeRecs(ds) == IF ds = <<>> THEN <<>> ELSE EncodeRec(Head(ds)) \o EncodeRecs(Tail(ds))

Seg(recs, tail) == [recs |-> recs, tail |-> tail]

EncodeSeg(s) == EncodeRecs(s.recs) \o s.tail

\* The segments a read may return.
SegPool ==
    << Seg(<< Rec(2, DTypeDir, <<Dot>>, 4),
              Rec(1, DTypeDir, <<Dot, Dot>>, 3),
              Rec(5, DTypeRegularFile, <<ChA>>, 4) >>, <<>>),
       Seg(<< Rec(256, DTypeDir, <<ChB>>, 4),
              Rec(0, DTypeRegularFile, <<ChA>>, 4),
              Rec(7, DTypeSymlink, <<Dot, Dot, Dot>>, 2) >>, <<>>),
       Seg(<< Rec(9, DTypeUnknown, <<Dot, ChX>>, 3),
              Rec(3, 255, <<>>, 5) >>, <<>>),
       Seg(<< Rec(5, DTypeRegularFile, <<ChA>>, 4) >>, <<>>),
       Seg(<< Rec(0, DTypeSocket, <<ChX>>, 4),
              Rec(1, DTypeDir, <<Dot, Dot>>, 3),
              Rec(2, DTypeDir, <<Dot>>, 4) >>, <<>>),
       Seg(<< Rec(65536, DTypeNamedPipe, <<ChB, ChA>>, 3),
              BadRec(4, DTypeRegularFile, <<ChX>>, 4, 0),
              Rec(6, DTypeRegularFile, <<ChA>>, 4) >>, <<>>),
       Seg(<< Rec(8, DTypeSocket, <<ChX>>, 4),
              BadRec(4, DTypeRegularFile, <<ChB>>, 4, 300),
              Rec(6, DTypeRegularFile, <<ChA>>, 4) >>, <<>>),
       Seg(<< Rec(11, DTypeCharDevice, <<ChX, ChA>>, 3) >>, <<1, 2, 3, 4, 5>>),
       Seg(<< Rec(12, DTypeBlockDevice, <<ChA, ChB, ChX>>, 0),
              Rec(13, DTypeRegularFile, <<ChB>>, 1) >>, <<>>),
       Seg(<< Rec(10, DTypeRegularFile, <<ChB>>, 4),
              BadRec(4, DTypeRegularFile, <<ChX>>, 4, 4) >>, <<>>),
       Seg(<< Rec(1, DTypeDir, <<Dot, Dot>>, 3),
              Rec(14, DTypeRegularFile, <<Dot, ChA>>, 3) >>, <<>>) >>

\* The lengths of the buffers a caller may supply.
BufSizes == {48, 72}

\* ------------------------------------------------------------------------
\* State

VARIABLES
    pc,       \* where Dirents is: Reading, Decoding, Yielding, or ended
    buf,      \* the caller's buffer, reused by every read
    n,        \* bytes filled by the last read
    cursor,   \* offset in buf[:n] at which direntsInBuf's slice starts
    readLog,  \* history: the result of every unix.ReadDirent call
    yielded,  \* history: the elements passed to yield, with their origin
    stopped,  \* history: the consumer's yield has returned false
    layout,   \* the sizes of the fields of unix.Dirent in this build
    fdOpen    \* the directory descriptor fd is open

direntsVars == <<pc, buf, n, cursor, readLog, yielded, stopped, layout, fdOpen>>

\* The state of NewReadDirIter (package readdiriter).
VARIABLES
    impl,     \* which of the two sources of NewReadDirIter runs
    iterN,    \* the argument n
    dirAll,   \* history: the entries of the directory when the file was opened
    file,     \* the entries the file has not returned yet
    ipc,      \* where NewReadDirIter is: Calling, Ranging, Yielding, or ended
    deSlice,  \* de, the slice returned by the last file.ReadDir(n)
    idx,      \* number of elements of de the range loop has passed
    seenEOF,  \* the last file.ReadDir(n) returned io.EOF
    callLog,  \* history: the result of every file.ReadDir(n)
    iyielded, \* history: the elements passed to yield
    istopped  \* history: the consumer's yield has returned false

iterVars == <<impl, iterN, dirAll, file, ipc, deSlice, idx, seenEOF, callLog, iyielded, istopped>>

\* NewReadDirIterRecursive of iter_recursive.go: which walkDir runs, over
\* which NewReadDirIter and n, the directory tree behind openDir, the skipDir
\* pointer and the bool it points to, the stack of walkDir calls, the
\* argument and the result of the call being entered or left, and what the
\* consumer has seen and done: setAt holds the positions in wyielded of the
\* entries at which the consumer set *skipDir to true.
VARIABLES
    walkImpl, walkIter, walkN, tree, skipPtr, skipDir, stack, wdir, wret, wpc,
    wyielded, wstopped, opened, closed, wfault, skipEver, setAt

walkVars ==
    <<walkImpl, walkIter, walkN, tree, skipPtr, skipDir, stack, wdir, wret, wpc,
      wyielded, wstopped, opened, closed, wfault, skipEver, setAt>>

\* The state that belongs to the other iterators of the repository.
outsideDirents == <<iterVars, walkVars>>

\* What Dirents and direntsInBuf never assign.
direntsFrame == <<layout, fdOpen, outsideDirents>>

vars == <<direntsVars, iterVars, walkVars>>

\* NewReadDirIter is not running.
IterIdle ==
    /\ impl = "none"
    /\ iterN = 0
    /\ dirAll = <<>>
    /\ file = <<>>
    /\ ipc = "Idle"
    /\ deSlice = <<>>
    /\ idx = 0
    /\ seenEOF = FALSE
    /\ callLog = <<>>
    /\ iyielded = <<>>
    /\ istopped = FALSE

\* NewReadDirIterRecursive is not running.
WalkIdle ==
    /\ walkImpl = "none"
    /\ walkIter = "none"
    /\ walkN = 0
    /\ tree = <<>>
    /\ skipPtr = "nil"
    /\ skipDir = FALSE
    /\ stack = <<>>
    /\ wdir = <<>>
    /\ wret = FALSE
    /\ wpc = "Idle"
    /\ wyielded = <<>>
    /\ wstopped = FALSE
    /\ opened = <<>>
    /\ closed = <<>>
    /\ wfault = FALSE
    /\ skipEver = FALSE
    /\ setAt = {}

\* The field sizes of unix.Dirent: 8, 2 and 1 on linux/amd64; other targets
\* of golang.org/x/sys/unix declare narrower or wider fields.
Layout(ino, reclen, typ) == [inoSize |-> ino, reclenSize |-> reclen, typeSize |-> typ]

Layouts ==
    { Layout(inoSize, reclenSize, typeSize), Layout(4, reclenSize, typeSize),
      Layout(inoSize, 4, typeSize), Layout(inoSize, reclenSize, 2) }

\* Variant: only the size of the inode field is asserted.
LayoutOK_InoOnly == layout.inoSize = 8

\* The three panics of lines 97-105 are skipped exactly when this holds.
LayoutOK == layout.inoSize = 8 /\ layout.reclenSize = 2 /\ layout.typeSize = 1

\* Number of unix.ReadDirent calls made so far.
reads == Len(readLog)

\* The result (n, err) of one unix.ReadDirent call; seg is the index in
\* SegPool of the segment it wrote, 0 when it wrote none.
ReadResult(nbytes, err, seg) == [n |-> nbytes, err |-> err, seg |-> seg]

\* DirentInfo{} (lines 37-50)
ZeroDirentInfo == [Ino |-> 0, Type |-> 0, Name |-> <<>>]

DirentInfo(ino, dType, name) == [Ino |-> ino, Type |-> dType, Name |-> name]

\* An element passed to yield; seg is the number of the read and off the
\* offset in its segment at which the entry was decoded.
Element(de, err, seg, off) == [de |-> de, err |-> err, seg |-> seg, off |-> off]

Init ==
    /\ pc = "Reading"
    /\ buf \in {Zeros(k) : k \in BufSizes}
    /\ n = 0
    /\ cursor = 0
    /\ readLog = <<>>
    /\ yielded = <<>>
    /\ stopped = FALSE
    /\ layout \in Layouts
    /\ fdOpen = TRUE
    /\ IterIdle
    /\ WalkIdle

\* ------------------------------------------------------------------------
\* Dirents (lines 57-76)

\* Variant: the failed read is reported and then tried again.
ReadError_Retry ==
    /\ pc = "Reading"
    /\ reads <= MaxReads
    /\ readLog' = Append(readLog, ReadResult(-1, "EIO", 0))
    /\ yielded' = Append(yielded, Element(ZeroDirentInfo, "EIO", 0, 0))
    /\ pc' = "Reading"
    /\ UNCHANGED <<buf, n, cursor, stopped>>
    /\ UNCHANGED direntsFrame

\* Lines 60-64: the read fails; the error is yielded with a zero entry and
\* the iterator returns whatever yield returns.
ReadError ==
    /\ pc = "Reading"
    /\ \E ok \in BOOLEAN :
        /\ readLog' = Append(readLog, ReadResult(-1, "EIO", 0))
        /\ yielded' = Append(yielded, Element(ZeroDirentInfo, "EIO", 0, 0))
        /\ pc' = "Failed"
    /\ UNCHANGED <<buf, n, cursor, stopped>>
    /\ UNCHANGED direntsFrame

\* Variant: the n == 0 test is missing, the empty segment is scanned and
\* the loop reads again.
ReadEOF_NoTest ==
    /\ pc = "Reading"
    /\ reads <= MaxReads
    /\ readLog' = Append(readLog, ReadResult(0, "nil", 0))
    /\ n' = 0
    /\ pc' = "Reading"
    /\ UNCHANGED <<buf, cursor, yielded, stopped>>
    /\ UNCHANGED direntsFrame

\* Variant: the descriptor is closed when the directory has been read.
ReadEOF_Close ==
    /\ pc = "Reading"
    /\ readLog' = Append(readLog, ReadResult(0, "nil", 0))
    /\ n' = 0
    /\ pc' = "Done"
    /\ fdOpen' = FALSE
    /\ UNCHANGED <<buf, cursor, yielded, stopped, layout, outsideDirents>>

\* Lines 60, 65-67: the read returns 0 bytes; the iterator returns.
ReadEOF ==
    /\ pc = "Reading"
    /\ readLog' = Append(readLog, ReadResult(0, "nil", 0))
    /\ n' = 0
    /\ pc' = "Done"
    /\ UNCHANGED <<buf, cursor, yielded, stopped>>
    /\ UNCHANGED direntsFrame

\* Lines 60, 69 and 82-105: the read fills buf[:n] with a segment and
\* direntsInBuf(buf[:n]) starts, after its three layout checks.
ReadSegment ==
    /\ pc = "Reading"
    /\ reads < MaxReads
    /\ \E k \in 1..Len(SegPool) :
        LET bytes == EncodeSeg(SegPool[k]) IN
        /\ Len(bytes) <= Len(buf)
        /\ readLog' = Append(readLog, ReadResult(Len(bytes), "nil", k))
        /\ buf' = bytes \o SliceFrom(buf, Len(bytes))
        /\ n' = Len(bytes)
        /\ cursor' = 0
        /\ pc' = IF LayoutOK THEN "Decoding" ELSE "Panicked"
    /\ UNCHANGED <<yielded, stopped>>
    /\ UNCHANGED direntsFrame

\* ------------------------------------------------------------------------
\* direntsInBuf (lines 107-138): one iteration of the loop

ScanRecord ==
    /\ pc = "Decoding"
    /\ LET rest == SubSeq(buf, cursor + 1, n) IN
       IF ~HasReclenField(rest)
       THEN \* line 107: the loop ends, Dirents reads again
            /\ pc' = "Reading"
            /\ UNCHANGED <<cursor, yielded>>
       ELSE
       LET reclen == Uint16(SliceFrom(rest, reclenOff)) IN
       IF Truncated(reclen, rest)
       THEN \* lines 109-111: return, Dirents reads again
            /\ pc' = "Reading"
            /\ UNCHANGED <<cursor, yielded>>
       ELSE
       LET rec == SliceTo(rest, reclen) IN
       /\ cursor' = Advance(cursor, reclen)
       /\ IF Len(rec) - inoOff < inoSize
          THEN \* line 115: Uint64 of fewer than 8 bytes panics
               /\ pc' = "Panicked"
               /\ UNCHANGED yielded
          ELSE
          LET ino == Uint64(SliceFrom(rec, inoOff)) IN
          IF FileAbsent(ino)
          THEN \* lines 116-118
               /\ pc' = "Decoding"
               /\ UNCHANGED yielded
          ELSE
          IF typeOff >= Len(rec) \/ nameOff > Len(rec)
          THEN \* lines 119-120: index or slice bound out of range
               /\ pc' = "Panicked"
               /\ UNCHANGED yielded
          ELSE
          LET dType == rec[typeOff + 1]
              name == TruncateAtNul(NameField(rest, reclen))
          IN
          IF IsUselessName(name)
          THEN \* lines 126-128
               /\ pc' = "Decoding"
               /\ UNCHANGED yielded
          ELSE \* lines 130-135 and 70: the entry is passed to yield
               /\ pc' = "Yielding"
               /\ yielded' = Append(yielded,
                      Element(DirentInfo(ino, DType(dType), name), "nil",
                              reads, cursor))
    /\ UNCHANGED <<buf, n, readLog, stopped>>
    /\ UNCHANGED direntsFrame

\* Variant: the buffer is refilled after every entry.
ConsumerContinue_Refill ==
    /\ pc = "Yielding"
    /\ pc' = "Reading"
    /\ UNCHANGED <<buf, n, cursor, readLog, yielded, stopped>>
    /\ UNCHANGED direntsFrame

\* Lines 70 and 135: yield returns true, the scan goes on.
ConsumerContinue ==
    /\ pc = "Yielding"
    /\ pc' = "Decoding"
    /\ UNCHANGED <<buf, n, cursor, readLog, yielded, stopped>>
    /\ UNCHANGED direntsFrame

\* Variant: only direntsInBuf returns, the loop of Dirents reads again.
ConsumerStop_InnerOnly ==
    /\ pc = "Yielding"
    /\ stopped' = TRUE
    /\ pc' = "Reading"
    /\ UNCHANGED <<buf, n, cursor, readLog, yielded>>
    /\ UNCHANGED direntsFrame

\* Lines 70-72 and 135-137: yield returns false, both iterators return.
ConsumerStop ==
    /\ pc = "Yielding"
    /\ stopped' = TRUE
    /\ pc' = "Stopped"
    /\ UNCHANGED <<buf, n, cursor, readLog, yielded>>
    /\ UNCHANGED direntsFrame

Next ==
    \/ ReadError
    \/ ReadEOF
    \/ ReadSegment
    \/ ScanRecord
    \/ ConsumerContinue
    \/ ConsumerStop

Spec == Init /\ [][Next]_vars

TypeOK ==
    /\ pc \in {"Reading", "Decoding", "Yielding", "Done", "Failed", "Stopped", "Panicked"}
    /\ n \in 0..Len(buf)
    /\ cursor \in 0..Len(buf)
    /\ reads \in 0..(MaxReads + 1)
    /\ stopped \in BOOLEAN
    /\ layout \in Layouts
    /\ fdOpen \in BOOLEAN

\* ------------------------------------------------------------------------
\* Properties

Last(s) == s[Len(s)]

\* The part of the filled segment that is still to be scanned.
Rest == SubSeq(buf, cursor + 1, n)

\* The value of the record-length field at the cursor.
ReclenAtCursor == Rest[reclenOff + 1] + 256 * Rest[reclenOff + 2]

\* The scan of the current segment cannot go on from the cursor.
ScanEnded ==
    \/ Len(Rest) < reclenOff + reclenSize
    \/ ReclenAtCursor = 0
    \/ ReclenAtCursor > Len(Rest)

\* A read has just been made.
ReadIssued == Len(readLog') = Len(readLog) + 1

\* C1: when a read returns 0 bytes with no error Dirents ends cleanly: that
\* read yields nothing, and after it no element is yielded and no read is
\* issued.
C1_EofEndsCleanly ==
    [][ /\ (ReadIssued /\ Last(readLog').n = 0 /\ Last(readLog').err = "nil")
            => (yielded' = yielded /\ pc' = "Done")
        /\ (readLog # <<>> /\ Last(readLog).n = 0 /\ Last(readLog).err = "nil")
            => (readLog' = readLog /\ yielded' = yielded) ]_vars

\* C1 witness: the sequence has ended on a 0-byte read after entries.
C1_Witness ==
    /\ pc = "Done"
    /\ Last(readLog).n = 0
    /\ Len(readLog) >= 3
    /\ Len(yielded) >= 2

\* C2: when a read fails, exactly one element carrying the error with a
\* zero entry is yielded, it is the last element, and no read follows.
C2_ReadErrorIsLast ==
    [][ /\ (ReadIssued /\ Last(readLog').err # "nil")
            => yielded' = Append(yielded,
                   [de |-> [Ino |-> 0, Type |-> 0, Name |-> <<>>],
                    err |-> Last(readLog').err, seg |-> 0, off |-> 0])
        /\ (readLog # <<>> /\ Last(readLog).err # "nil")
            => (readLog' = readLog /\ yielded' = yielded)
        /\ Cardinality({i \in 1..Len(yielded') : yielded'[i].err # "nil"}) <= 1 ]_vars

\* C2 witness: a read has failed after entries were yielded.
C2_Witness ==
    /\ pc = "Failed"
    /\ Len(yielded) >= 3
    /\ Last(yielded).err = "EIO"
    /\ Last(readLog).err = "EIO"

\* C3: once yield has returned false no read is issued and no element is
\* yielded, also when records of the current segment remain.
C3_StopHalts ==
    [][ /\ stopped => (readLog' = readLog /\ yielded' = yielded)
        /\ stopped' => pc' = "Stopped" ]_vars

\* C3 witness: the consumer stopped while the segment still holds a record.
C3_Witness ==
    /\ stopped
    /\ cursor < n
    /\ ~ScanEnded

\* C4: a read is issued only at the start or when the scan of the previous
\* segment has ended, so when the consumer stops the number of reads is the
\* number of the segment that holds the last entry, all of them segments.
C4_NoReadAhead ==
    /\ [][ ReadIssued => (readLog = <<>> \/ (pc = "Reading" /\ ScanEnded)) ]_vars
    /\ [](stopped =>
            /\ yielded # <<>>
            /\ reads = Last(yielded).seg
            /\ \A i \in 1..Len(readLog) : readLog[i].n > 0)

\* C4 witness: the consumer stopped in the second segment, on its third entry.
C4_Witness ==
    /\ stopped
    /\ reads = 2
    /\ Len(yielded) = 3
    /\ Last(yielded).seg = 2

\* The record described by d is as the operating system writes it.
WellFormedRec(d) ==
    /\ d.reclen = nameOff + Len(d.name) + d.pad
    /\ d.pad >= 1
    /\ \A i \in 1..Len(d.name) : d.name[i] # 0

WellFormedSeg(s) ==
    /\ s.tail = <<>>
    /\ \A i \in 1..Len(s.recs) : WellFormedRec(s.recs[i])

\* The record described by d passes the filter.
Survives(d) == d.ino # 0 /\ d.name # <<46>> /\ d.name # <<46, 46>>

\* The entries of the surviving records of segment s, in record order.
SurvivorsOf(s) ==
    LET live == SelectSeq(s.recs, LAMBDA d : Survives(d)) IN
    [i \in 1..Len(live) |-> [Ino |-> live[i].ino, Type |-> live[i].typ,
                             Name |-> live[i].name]]

RECURSIVE SurvivorsOfReads(_)
SurvivorsOfReads(log) ==
    IF log = <<>> THEN <<>>
    ELSE (IF Head(log).seg > 0 THEN SurvivorsOf(SegPool[Head(log).seg]) ELSE <<>>)
             \o SurvivorsOfReads(Tail(log))

Count(e, s) == Cardinality({i \in 1..Len(s) : s[i] = e})

Entries == [i \in 1..Len(yielded) |-> yielded[i].de]

\* Every read so far returned a well-formed segment, but for a last 0-byte read.
WellFormedRun ==
    /\ readLog # <<>>
    /\ Last(readLog).n = 0
    /\ Last(readLog).err = "nil"
    /\ \A i \in 1..(Len(readLog) - 1) :
        /\ readLog[i].seg > 0
        /\ WellFormedSeg(SegPool[readLog[i].seg])

IsPrefix(a, b) == Len(a) <= Len(b) /\ \A i \in 1..Len(a) : a[i] = b[i]

\* C5: for well-formed segments ended by a 0-byte read and a consumer that
\* never stops, the yielded entries are, as a multiset, the records whose
\* ino is not 0 and whose name is neither "." nor "..", each exactly once.
C5_AllSurvivorsOnce ==
    WellFormedRun =>
        LET want == SurvivorsOfReads(readLog) IN
        /\ \A i \in 1..Len(yielded) : yielded[i].err = "nil"
        /\ Len(Entries) = Len(want)
        /\ \A i \in 1..Len(want) : Count(want[i], Entries) = Count(want[i], want)

\* C5 witness: three well-formed segments were read to the end, two of them
\* holding the same entry.
C5_Witness ==
    /\ WellFormedRun
    /\ [i \in 1..Len(readLog) |-> readLog[i].seg] = <<1, 2, 4, 0>>
    /\ Len(yielded) = 4
    /\ Count(yielded[1].de, Entries) = 2

\* C6: no yielded entry has the name "." or "..".
C6_NoDotNames ==
    \A i \in 1..Len(yielded) :
        yielded[i].err = "nil" =>
            (yielded[i].de.Name # <<46>> /\ yielded[i].de.Name # <<46, 46>>)

\* C6 witness: segments holding "." and ".." as first, middle and last
\* record were scanned to the end and their other entries were yielded.
C6_Witness ==
    /\ pc = "Done"
    /\ [i \in 1..Len(readLog) |-> readLog[i].seg] = <<1, 5, 11, 0>>
    /\ [i \in 1..Len(yielded) |-> yielded[i].de.Name] = << <<97>>, <<46, 97>> >>
    /\ [i \in 1..Len(yielded) |-> yielded[i].off] = <<48, 24>>

\* The record at the cursor is complete and its inode field is zero.
AbsentAtCursor ==
    /\ pc = "Decoding"
    /\ ~ScanEnded
    /\ ReclenAtCursor >= inoOff + inoSize
    /\ \A i \in 1..inoSize : Rest[inoOff + i] = 0

\* C7: no yielded entry has Ino = 0; a record whose inode field is 0 is
\* dropped and the scan goes on with the next record of the segment.
C7_AbsentDropped ==
    /\ [](\A i \in 1..Len(yielded) : yielded[i].err = "nil" => yielded[i].de.Ino # 0)
    /\ [][ AbsentAtCursor =>
            /\ yielded' = yielded
            /\ pc' = "Decoding"
            /\ cursor' = cursor + ReclenAtCursor
            /\ readLog' = readLog ]_vars

\* C7 witness: the record after a record with ino 0 was yielded.
C7_Witness ==
    /\ yielded # <<>>
    /\ readLog # <<>>
    /\ Last(readLog).seg = 2
    /\ SegPool[2].recs[2].ino = 0
    /\ Last(yielded).seg = Len(readLog)
    /\ Last(yielded).off = 48
    /\ Last(yielded).de.Name = <<46, 46, 46>>

\* The record at the cursor is complete, has a name field and a non-zero
\* inode field.
NamedAtCursor ==
    /\ pc = "Decoding"
    /\ ~ScanEnded
    /\ ReclenAtCursor >= nameOff
    /\ \E i \in 1..inoSize : Rest[inoOff + i] # 0

NameAtCursor == TruncateAtNul(SubSeq(Rest, nameOff + 1, ReclenAtCursor))

\* C8: every scanned record with ino # 0 whose name, cut at its first NUL,
\* is not exactly "." or ".." is yielded, whatever its name and type tag.
C8_OnlyTwoRules ==
    [][ (NamedAtCursor /\ NameAtCursor # <<46>> /\ NameAtCursor # <<46, 46>>)
         => /\ Len(yielded') = Len(yielded) + 1
            /\ SubSeq(yielded', 1, Len(yielded)) = yielded
            /\ Last(yielded').err = "nil"
            /\ Last(yielded').de.Name = NameAtCursor
            /\ Last(yielded').de.Type = Rest[typeOff + 1]
            /\ Last(yielded').off = cursor ]_vars

\* C8 witness: "...", ".x" and the empty name, with the type tags 10, 0 and
\* 255, were yielded.
C8_Witness ==
    /\ \E i \in 1..Len(yielded) :
        yielded[i].de.Name = <<46, 46, 46>> /\ yielded[i].de.Type = 10
    /\ \E i \in 1..Len(yielded) :
        yielded[i].de.Name = <<46, 120>> /\ yielded[i].de.Type = 0
    /\ \E i \in 1..Len(yielded) :
        yielded[i].de.Name = <<>> /\ yielded[i].de.Type = 255 /\ yielded[i].err = "nil"

\* The record length at the cursor is 0 or exceeds the bytes that remain.
TruncatedAtCursor ==
    /\ Len(Rest) >= reclenOff + reclenSize
    /\ (ReclenAtCursor = 0 \/ ReclenAtCursor > Len(Rest))

\* C9: when the record length at the cursor is 0 or exceeds the remaining
\* bytes, the scan of the segment stops without moving the cursor, nothing
\* is yielded, and Dirents goes on to the next read.
C9_TruncationStopsSegment ==
    [][ (pc = "Decoding" /\ TruncatedAtCursor) =>
            /\ cursor' = cursor
            /\ yielded' = yielded
            /\ readLog' = readLog
            /\ pc' = "Reading" ]_vars

\* C9 witness: a segment was cut at a record length of 0 and the next one at
\* a record length beyond its end; only the records before the cut were
\* yielded and Dirents is about to read again.
C9_Witness ==
    /\ pc = "Reading"
    /\ [i \in 1..Len(readLog) |-> readLog[i].seg] = <<6, 7>>
    /\ [i \in 1..Len(yielded) |-> yielded[i].de.Ino] = <<65536, 8>>
    /\ cursor = 24
    /\ TruncatedAtCursor
    /\ ReclenAtCursor = 300

\* The entries yielded from read number r.
YieldedFrom(r) ==
    LET es == SelectSeq(yielded, LAMBDA e : e.err = "nil" /\ e.seg = r) IN
    [i \in 1..Len(es) |-> es[i].de]

\* C10: entries are yielded one at a time in scan order: by increasing
\* offset within a segment, and all entries of a segment before any entry of
\* a segment read later; for a well-formed segment they are its surviving
\* records in record order.
C10_ScanOrder ==
    /\ [](\A i, j \in 1..Len(yielded) :
            (i < j /\ yielded[i].err = "nil" /\ yielded[j].err = "nil") =>
                \/ yielded[i].seg < yielded[j].seg
                \/ (yielded[i].seg = yielded[j].seg /\ yielded[i].off < yielded[j].off))
    /\ [](\A r \in 1..Len(readLog) :
            (readLog[r].seg > 0 /\ WellFormedSeg(SegPool[readLog[r].seg])) =>
                IsPrefix(YieldedFrom(r), SurvivorsOf(SegPool[readLog[r].seg])))
    /\ [][Len(yielded') <= Len(yielded) + 1]_vars

\* C10 witness: two entries of one segment and then an entry of a later one.
C10_Witness ==
    /\ Len(yielded) = 3
    /\ yielded[1].seg = 1
    /\ yielded[2].seg = 1
    /\ yielded[1].off < yielded[2].off
    /\ yielded[3].seg = 3

\* The bytes that read number r wrote into the buffer.
BytesOfRead(r) == EncodeSeg(SegPool[readLog[r].seg])

\* The entries yielded so far, without the error element.
YieldedEntries == {i \in 1..Len(yielded) : yielded[i].err = "nil"}

\* C11: each yielded entry carries the 8-byte inode field and the type-tag
\* byte of its record unchanged, whatever the value of the tag.
C11_InoAndTypePassThrough ==
    \A i \in YieldedEntries :
        LET e == yielded[i]
            B == BytesOfRead(e.seg)
        IN /\ e.de.Type = B[e.off + typeOff + 1]
           /\ ToBytes(e.de.Ino, 8) = SubSeq(B, e.off + inoOff + 1, e.off + inoOff + 8)

\* C11 witness: entries with the tags 255 and 0 and with inode numbers whose
\* low byte is 0 were yielded.
C11_Witness ==
    /\ \E i \in YieldedEntries : yielded[i].de.Type = 255 /\ yielded[i].de.Ino = 3
    /\ \E i \in YieldedEntries : yielded[i].de.Type = 0 /\ yielded[i].de.Ino = 9
    /\ \E i \in YieldedEntries : yielded[i].de.Type = 1 /\ yielded[i].de.Ino = 65536

\* The name field of the record that element e was decoded from.
NameFieldOf(e) ==
    LET B == BytesOfRead(e.seg)
        reclen == B[e.off + reclenOff + 1] + 256 * B[e.off + reclenOff + 2]
    IN SubSeq(B, e.off + nameOff + 1, e.off + reclen)

\* C12: a yielded name is the bytes of the name field before its first NUL
\* byte, the whole field when it holds no NUL byte, and holds no NUL byte.
C12_NameUpToNul ==
    \A i \in YieldedEntries :
        LET name == yielded[i].de.Name
            field == NameFieldOf(yielded[i])
        IN /\ IsPrefix(name, field)
           /\ \A j \in 1..Len(name) : name[j] # 0
           /\ (Len(name) < Len(field) => field[Len(name) + 1] = 0)

\* C12 witness: a name that fills its record to the end and a name cut at
\* the first of several padding bytes were yielded from one segment.
C12_Witness ==
    /\ Len(yielded) = 2
    /\ yielded[1].de.Name = <<97, 98, 120>>
    /\ NameFieldOf(yielded[1]) = <<97, 98, 120>>
    /\ yielded[2].de.Name = <<98>>
    /\ NameFieldOf(yielded[2]) = <<98, 0>>

\* A field of unix.Dirent does not have the size the decoder is written for.
LayoutViolated ==
    layout.inoSize # 8 \/ layout.reclenSize # 2 \/ layout.typeSize # 1

C14_HandleUntouched ==
    /\ [](fdOpen)
    /\ [][fdOpen' = fdOpen]_vars

\* C14 witness: the iteration has ended, by the end of the stream after two
\* segments, and the descriptor is open.
C14_Witness ==
    /\ pc = "Done"
    /\ fdOpen
    /\ reads = 3
    /\ Len(yielded) = 1

\* C15: while the consumer holds an entry, its name is the bytes of the
\* buffer at the name offset of its record, inside that record and inside
\* the bytes filled by the most recent read, and the buffer is not refilled.
C15_NameViewValid ==
    /\ [](pc = "Yielding" =>
            LET e == Last(yielded)
                reclen == buf[e.off + reclenOff + 1] + 256 * buf[e.off + reclenOff + 2]
                lo == e.off + nameOff
                hi == e.off + nameOff + Len(e.de.Name)
            IN /\ e.seg = reads
               /\ e.off + reclen <= n
               /\ hi <= e.off + reclen
               /\ SubSeq(buf, lo + 1, hi) = e.de.Name
               /\ cursor = e.off + reclen)
    /\ [][ pc = "Yielding" => (buf' = buf /\ n' = n /\ readLog' = readLog) ]_vars
    /\ [][ ReadIssued => pc = "Reading" ]_vars

\* C15 witness: the consumer holds an entry of the second segment whose name
\* ends where its record ends, with a record behind it.
C15_Witness ==
    /\ pc = "Yielding"
    /\ reads = 2
    /\ Last(yielded).de.Name = <<97, 98, 120>>
    /\ cursor = 22
    /\ cursor < n

\* ------------------------------------------------------------------------
\* NewReadDirIter (package readdiriter).  The repository holds two sources
\* of it: src/iter.go lines 10-46, which treats n <= 0 by a single call of
\* file.ReadDir, and src/unnamed/part_002 lines 18-40, which has one loop
\* for every n.  impl says which one runs.

\* Number of entries of the largest directory.
MaxEntries == 3

\* Number of file.ReadDir calls after which the model stops calling.
MaxCalls == 5

\* The values of n tried.
IterNs == {-1, 0, 1, 2}

Impls == {"iter.go", "part_002"}

\* A directory entry is known by its number; yield(nil, err) passes no entry.
NilEntry == 0

Min(a, b) == IF a < b THEN a ELSE b

\* One result of file.ReadDir(n): the slice, the error, and what the file
\* has left to return.
Outcome(slice, err, rest) == [de |-> slice, err |-> err, rest |-> rest]

TakeFrom(remaining, k) ==
    [de |-> SubSeq(remaining, 1, k), rest |-> SubSeq(remaining, k + 1, Len(remaining))]

\* What file.ReadDir(nn) may return when the file has still to return
\* remaining and calls calls were made before.  An *os.File returns, for
\* nn > 0, up to nn entries with a nil error and, at the end, an empty
\* slice with io.EOF; for nn <= 0 all remaining entries with a nil error.
\* Other files (the mock of TestNewReadDirIter among them) return io.EOF
\* together with entries, or after the end for nn <= 0, and any file may
\* fail with the entries read so far.
ReadDirOutcomes(nn, remaining, calls) ==
    LET limit == IF nn > 0 THEN Min(nn, Len(remaining)) ELSE Len(remaining)
        osFile ==
            IF nn > 0
            THEN IF remaining = <<>>
                 THEN {Outcome(<<>>, "EOF", <<>>)}
                 ELSE {Outcome(TakeFrom(remaining, k).de, "nil", TakeFrom(remaining, k).rest) :
                          k \in 1..limit}
            ELSE {Outcome(remaining, "nil", <<>>)}
        withEOF ==
            IF nn > 0
            THEN {Outcome(TakeFrom(remaining, k).de, "EOF", TakeFrom(remaining, k).rest) :
                     k \in 1..limit}
            ELSE IF remaining = <<>> /\ calls > 0
                 THEN {Outcome(<<>>, "EOF", <<>>)}
                 ELSE {}
        failed ==
            {Outcome(TakeFrom(remaining, k).de, "EIO", TakeFrom(remaining, k).rest) :
                k \in 0..limit}
    IN osFile \cup withEOF \cup failed

\* An element passed to yield.
IterElement(entry, err) == [entry |-> entry, err |-> err]

\* iter.go lines 14 and 29-30, part_002 lines 23-24: the error ends the
\* iteration.  The n <= 0 branch of iter.go does not set io.EOF apart.
Fatal(version, nn, err) ==
    IF version = "iter.go" /\ nn <= 0
    THEN err # "nil"
    ELSE err # "nil" /\ err # "EOF"

\* Variant: io.EOF does not end the loop.
LoopExits_NoEOF(version, nn, eof, slice) ==
    IF version = "iter.go" THEN nn <= 0 ELSE nn = 0 /\ Len(slice) = 0

\* iter.go lines 23 and 41-43, part_002 lines 35-37: the iterator returns
\* after the range loop over the slice.
LoopExits(version, nn, eof, slice) ==
    IF version = "iter.go"
    THEN nn <= 0 \/ eof
    ELSE eof \/ (nn = 0 /\ Len(slice) = 0)

\* Dirents is not running.
DirentsIdle ==
    /\ pc = "Idle"
    /\ buf = <<>>
    /\ n = 0
    /\ cursor = 0
    /\ readLog = <<>>
    /\ yielded = <<>>
    /\ stopped = FALSE
    /\ layout = Layout(inoSize, reclenSize, typeSize)
    /\ fdOpen = TRUE

\* The state that belongs to the other iterators of the repository.
outsideIter == <<direntsVars, walkVars>>

InitIter ==
    /\ impl \in Impls
    /\ iterN \in IterNs
    /\ dirAll \in {[i \in 1..k |-> i] : k \in 0..MaxEntries}
    /\ file = dirAll
    /\ ipc = "Calling"
    /\ deSlice = <<>>
    /\ idx = 0
    /\ seenEOF = FALSE
    /\ callLog = <<>>
    /\ iyielded = <<>>
    /\ istopped = FALSE
    /\ DirentsIdle
    /\ WalkIdle

\* Variant: the failed call is reported and the loop calls again.
IterReadDirFails_Retry ==
    /\ ipc = "Calling"
    /\ Len(callLog) < MaxCalls
    /\ \E r \in ReadDirOutcomes(iterN, file, Len(callLog)) :
        /\ Fatal(impl, iterN, r.err)
        /\ file' = r.rest
        /\ callLog' = Append(callLog, [de |-> r.de, err |-> r.err])
        /\ iyielded' = Append(iyielded, IterElement(NilEntry, r.err))
        /\ ipc' = "Calling"
    /\ UNCHANGED <<impl, iterN, dirAll, deSlice, idx, seenEOF, istopped>>
    /\ UNCHANGED outsideIter

\* iter.go lines 13-17 and 27-33, part_002 lines 21-27: file.ReadDir(n)
\* fails; yield(nil, err) is called and the iterator returns whatever yield
\* returns.
IterReadDirFails ==
    /\ ipc = "Calling"
    /\ Len(callLog) < MaxCalls
    /\ \E r \in ReadDirOutcomes(iterN, file, Len(callLog)) :
        /\ Fatal(impl, iterN, r.err)
        /\ file' = r.rest
        /\ callLog' = Append(callLog, [de |-> r.de, err |-> r.err])
        /\ iyielded' = Append(iyielded, IterElement(NilEntry, r.err))
        /\ ipc' = "Failed"
    /\ UNCHANGED <<impl, iterN, dirAll, deSlice, idx, seenEOF, istopped>>
    /\ UNCHANGED outsideIter

\* Variant: the slice that comes with io.EOF is not ranged over.
IterReadDirReturns_EOFDrops ==
    /\ ipc = "Calling"
    /\ Len(callLog) < MaxCalls
    /\ \E r \in ReadDirOutcomes(iterN, file, Len(callLog)) :
        /\ ~Fatal(impl, iterN, r.err)
        /\ file' = r.rest
        /\ callLog' = Append(callLog, [de |-> r.de, err |-> r.err])
        /\ seenEOF' = (r.err = "EOF")
        /\ deSlice' = IF r.err = "EOF" THEN <<>> ELSE r.de
        /\ idx' = 0
        /\ ipc' = "Ranging"
    /\ UNCHANGED <<impl, iterN, dirAll, iyielded, istopped>>
    /\ UNCHANGED outsideIter

\* iter.go lines 13, 18 and 27-36, part_002 lines 21-30: file.ReadDir(n)
\* returns a slice, with a nil error or with io.EOF, and the range loop
\* over the slice starts.
IterReadDirReturns ==
    /\ ipc = "Calling"
    /\ Len(callLog) < MaxCalls
    /\ \E r \in ReadDirOutcomes(iterN, file, Len(callLog)) :
        /\ ~Fatal(impl, iterN, r.err)
        /\ file' = r.rest
        /\ callLog' = Append(callLog, [de |-> r.de, err |-> r.err])
        /\ seenEOF' = (r.err = "EOF")
        /\ deSlice' = r.de
        /\ idx' = 0
        /\ ipc' = "Ranging"
    /\ UNCHANGED <<impl, iterN, dirAll, iyielded, istopped>>
    /\ UNCHANGED outsideIter

\* iter.go lines 18-19 and 36-37, part_002 lines 30-31: the next element of
\* the slice is passed to yield.
IterYield ==
    /\ ipc = "Ranging"
    /\ idx < Len(deSlice)
    /\ iyielded' = Append(iyielded, IterElement(deSlice[idx + 1], "nil"))
    /\ idx' = idx + 1
    /\ ipc' = "Yielding"
    /\ UNCHANGED <<impl, iterN, dirAll, file, deSlice, seenEOF, callLog, istopped>>
    /\ UNCHANGED outsideIter

\* iter.go lines 22-23 and 40-44, part_002 lines 34-38: the range loop is
\* over; the iterator returns or calls file.ReadDir(n) again.
IterSliceEnd ==
    /\ ipc = "Ranging"
    /\ idx = Len(deSlice)
    /\ ipc' = IF LoopExits(impl, iterN, seenEOF, deSlice) THEN "Done" ELSE "Calling"
    /\ UNCHANGED <<impl, iterN, dirAll, file, deSlice, idx, seenEOF, callLog,
                   iyielded, istopped>>
    /\ UNCHANGED outsideIter

\* yield returns true: the range loop goes on.
IterContinue ==
    /\ ipc = "Yielding"
    /\ ipc' = "Ranging"
    /\ UNCHANGED <<impl, iterN, dirAll, file, deSlice, idx, seenEOF, callLog,
                   iyielded, istopped>>
    /\ UNCHANGED outsideIter

\* Variant: only the range loop is left, the outer loop calls again.
IterStop_InnerOnly ==
    /\ ipc = "Yielding"
    /\ istopped' = TRUE
    /\ ipc' = "Calling"
    /\ UNCHANGED <<impl, iterN, dirAll, file, deSlice, idx, seenEOF, callLog, iyielded>>
    /\ UNCHANGED outsideIter

\* iter.go lines 19-21 and 37-39, part_002 lines 31-33: yield returns false
\* and the iterator returns.
IterStop ==
    /\ ipc = "Yielding"
    /\ istopped' = TRUE
    /\ ipc' = "Stopped"
    /\ UNCHANGED <<impl, iterN, dirAll, file, deSlice, idx, seenEOF, callLog, iyielded>>
    /\ UNCHANGED outsideIter

NextIter ==
    \/ IterReadDirFails
    \/ IterReadDirReturns
    \/ IterYield
    \/ IterSliceEnd
    \/ IterContinue
    \/ IterStop

SpecIter == InitIter /\ [][NextIter]_vars

IterTypeOK ==
    /\ impl \in Impls
    /\ iterN \in IterNs
    /\ ipc \in {"Calling", "Ranging", "Yielding", "Done", "Failed", "Stopped"}
    /\ idx \in 0..Len(deSlice)
    /\ Len(callLog) <= MaxCalls
    /\ seenEOF \in BOOLEAN
    /\ istopped \in BOOLEAN

\* ------------------------------------------------------------------------
\* Properties of NewReadDirIter

\* The slices of the calls logged in log, one after the other.
RECURSIVE Batches(_)
Batches(log) == IF log = <<>> THEN <<>> ELSE Head(log).de \o Batches(Tail(log))

\* The entries yielded so far, in order.
IterEntries == [i \in 1..Len(iyielded) |-> iyielded[i].entry]

\* A call has just been made.
CallMade == Len(callLog') = Len(callLog) + 1

\* No call so far has failed with an error other than io.EOF.
NoCallFailed == \A i \in 1..Len(callLog) : callLog[i].err \in {"nil", "EOF"}

\* C16: for n > 0 the entries of the successive slices are yielded in call
\* order, each with a nil error, until a call returns io.EOF; the slice that
\* comes with io.EOF is yielded too, io.EOF is never yielded, and no call
\* follows the one that returned io.EOF.
C16_BatchesInOrder ==
    /\ []((iterN > 0 /\ NoCallFailed) =>
            /\ \A i \in 1..Len(iyielded) : iyielded[i].err = "nil"
            /\ IsPrefix(IterEntries, Batches(callLog))
            /\ (ipc \in {"Calling", "Done"} => IterEntries = Batches(callLog))
            /\ (ipc = "Done" => Last(callLog).err = "EOF")
            /\ \A i \in 1..(Len(callLog) - 1) : callLog[i].err = "nil")
    /\ [][ (iterN > 0 /\ callLog # <<>> /\ Last(callLog).err = "EOF")
            => callLog' = callLog ]_vars

\* C16 witness: with n = 2, a full slice and then a slice of one entry that
\* came with io.EOF were yielded, and the iterator returned.
C16_Witness ==
    /\ iterN = 2
    /\ ipc = "Done"
    /\ callLog = << [de |-> <<1, 2>>, err |-> "nil"], [de |-> <<3>>, err |-> "EOF"] >>
    /\ IterEntries = <<1, 2, 3>>

\* Every call so far returned all the entries the file had left with a nil
\* error: the whole directory at first, the empty slice afterwards.
AllAtOnceFile ==
    /\ callLog # <<>>
    /\ callLog[1].de = dirAll
    /\ \A i \in 1..Len(callLog) : callLog[i].err = "nil"
    /\ \A i \in 2..Len(callLog) : callLog[i].de = <<>>

\* C17: for n <= 0, over a file that returns all remaining entries with a
\* nil error and the empty slice with a nil error once exhausted, every
\* entry is yielded exactly once and the iterator stops calling: once the
\* exhausted file has answered, no further call is made.
C17_NonPositiveNTerminates ==
    /\ []((iterN <= 0 /\ AllAtOnceFile /\ ~istopped) =>
            /\ IsPrefix(IterEntries, dirAll)
            /\ (ipc \in {"Calling", "Done"} => IterEntries = dirAll))
    /\ [][ (iterN <= 0 /\ AllAtOnceFile /\ file = <<>> /\ Last(callLog).de = <<>>)
            => callLog' = callLog ]_vars

\* C18: when a call fails with an error other than io.EOF, no entry of that
\* call is yielded, one element (nil, err) is yielded, it is the last
\* element, and no further call is made.
C18_CallErrorIsLast ==
    [][ /\ (CallMade /\ Last(callLog').err \notin {"nil", "EOF"})
            => iyielded' = Append(iyielded,
                   [entry |-> 0, err |-> Last(callLog').err])
        /\ (callLog # <<>> /\ Last(callLog).err \notin {"nil", "EOF"})
            => (callLog' = callLog /\ iyielded' = iyielded)
        /\ Cardinality({i \in 1..Len(iyielded') : iyielded'[i].err # "nil"}) <= 1 ]_vars

\* C18 witness: the second call failed with two entries read; the entries
\* of the first call and the error were yielded, those two entries were not.
C18_Witness ==
    /\ ipc = "Failed"
    /\ iterN = 2
    /\ callLog = << [de |-> <<1>>, err |-> "nil"], [de |-> <<2, 3>>, err |-> "EIO"] >>
    /\ iyielded = << [entry |-> 1, err |-> "nil"], [entry |-> 0, err |-> "EIO"] >>

\* Every call so far returned n entries.
AllBatchesFull == \A i \in 1..Len(callLog) : Len(callLog[i].de) = iterN

\* C19: when the consumer stops after k entries, it has received the first
\* k entries of the sequence, nothing is yielded and no call is made
\* afterwards, and for n > 0 with full slices ceil(k/n) calls were made.
C19_StopAfterK ==
    /\ [](istopped =>
            /\ \A i \in 1..Len(iyielded) : iyielded[i].err = "nil"
            /\ IsPrefix(IterEntries, Batches(callLog))
            /\ IsPrefix(IterEntries, dirAll)
            /\ ((iterN > 0 /\ AllBatchesFull) =>
                    Len(callLog) = (Len(iyielded) + iterN - 1) \div iterN))
    /\ [][ istopped => (callLog' = callLog /\ iyielded' = iyielded) ]_vars
    /\ [][ istopped' => ipc' = "Stopped" ]_vars

\* C19 witness: with n = 1 the consumer stopped on the third entry, after
\* three calls that returned one entry each.
C19_Witness ==
    /\ istopped
    /\ iterN = 1
    /\ AllBatchesFull
    /\ IterEntries = <<1, 2, 3>>
    /\ Len(callLog) = 3

\* ------------------------------------------------------------------------
\* NewReadDirIterRecursive (iter_recursive.go lines 127-167 and 210-253)
\* and NewReadDirIterRecursiveSorted (lines 259-302)

\* The walkers that yield DirAndEntry: the walkDir of lines 133-167 returns
\* nothing, the walkDir of lines 216-253 and walkDirSorted (lines 265-302)
\* return whether the walk is to stop.
WalkImpls == {"walkDir:133", "walkDir:216", "walkDirSorted:265"}

\* The iterator each walker ranges over (lines 148, 231 and 278).
WalkIters(w) ==
    IF w = "walkDirSorted:265" THEN {"NewReadDirIterSorted"} ELSE Impls

WalkNs == {-1, 0, 1, 2}

\* An fs.DirEntry: Name() and IsDir().
DirEnt(name) == [name |-> name, isDir |-> TRUE]
FileEnt(name) == [name |-> name, isDir |-> FALSE]

\* The nil *DirAndEntry of an error element.
NilDirAndEntry == [dir |-> <<>>, entry |-> FileEnt("")]

\* A path is the sequence of its components below baseDir;
\* filepath.Join(baseDir, entry.Name()) appends one.
BaseDir == <<>>
Join(base, name) == Append(base, name)

\* Directory trees behind openDir, each directory in the order ReadDir
\* returns its entries: directories nested three deep with entries after a
\* subdirectory and the same file name in two directories (the shape of the
\* tree of TestNewReadDirIterRecursive), a flat one, and an empty baseDir.
TreeDeep ==
    [p \in {<<>>, <<"a">>, <<"a", "b">>, <<"a", "d">>} |->
        CASE p = <<>> -> <<DirEnt("a"), FileEnt("f")>>
          [] p = <<"a">> -> <<DirEnt("b"), FileEnt("f"), DirEnt("d")>>
          [] p = <<"a", "b">> -> <<FileEnt("g")>>
          [] OTHER -> <<>>]

TreeFlat ==
    [p \in {<<>>, <<"d">>} |->
        CASE p = <<>> -> <<FileEnt("f"), DirEnt("d"), FileEnt("g")>>
          [] OTHER -> <<>>]

TreeEmpty == [p \in {<<>>} |-> <<>>]

Trees == {TreeDeep, TreeFlat, TreeEmpty}

\* One running walkDir: its baseDir, what dirFile has still to return, and
\* the state of its NewReadDirIter (the slice being ranged over, how many of
\* its entries went to the loop body, seenEOF, whether ReadDir was called).
Frame(dir, entries) ==
    [dir |-> dir, file |-> entries, slice |-> <<>>, idx |-> 0,
     eof |-> FALSE, called |-> FALSE]

\* What dirFile.ReadDir(nn) may return: the tree is what its directories
\* return, so io.EOF comes when the directory has nothing left.
DirOutcomes(nn, remaining, called) ==
    {r \in ReadDirOutcomes(nn, remaining, IF called THEN 1 ELSE 0) :
        r.err = "EOF" => r.rest = <<>>}

\* The lexical order of the entry names of the trees.
NameRank == [a |-> 1, b |-> 2, d |-> 3, f |-> 4, g |-> 5]

NameLess(x, y) == NameRank[x] < NameRank[y]

\* e put at its place in the sorted sequence s.
Insert(e, s) ==
    LET k == Cardinality({i \in 1..Len(s) : NameLess(s[i].name, e.name)})
    IN SubSeq(s, 1, k) \o <<e>> \o SubSeq(s, k + 1, Len(s))

RECURSIVE SortByName(_)
SortByName(s) ==
    IF s = <<>> THEN <<>> ELSE Insert(Head(s), SortByName(Tail(s)))

\* NewReadDirIterSorted(dirFile) (line 278; "the directory entries are in
\* lexical order in each directory", line 258): all the entries of the
\* directory, sorted by name, or an error and no entry.
SortedOutcomes(remaining) ==
    {Outcome(SortByName(remaining), "nil", <<>>), Outcome(<<>>, "EIO", remaining)}

\* What the iterator of the walker gets from the directory, whether that
\* ends the iteration with (nil, err), and whether the iterator returns
\* after the slice.
WalkOutcomes(f) ==
    IF walkIter = "NewReadDirIterSorted"
    THEN SortedOutcomes(f.file)
    ELSE DirOutcomes(walkN, f.file, f.called)

WalkFatal(err) ==
    IF walkIter = "NewReadDirIterSorted"
    THEN err # "nil"
    ELSE Fatal(walkIter, walkN, err)

WalkLoopExits(f) ==
    IF walkIter = "NewReadDirIterSorted"
    THEN TRUE
    ELSE LoopExits(walkIter, walkN, f.eof, f.slice)

Top == stack[Len(stack)]
SetTop(f) == [stack EXCEPT ![Len(stack)] = f]
Pop == SubSeq(stack, 1, Len(stack) - 1)

\* An element passed to the consumer's yield.
WalkElement(dir, entry, err) == [dir |-> dir, entry |-> entry, err |-> err]

\* Where control goes when a walkDir returns ret to the walkDir calls stk:
\* lines 246-248 and 296-298 return true in turn, line 164 goes on with the
\* next entry.
Resume(stk, ret) ==
    IF stk = <<>>
    THEN "Done"
    ELSE IF walkImpl # "walkDir:133" /\ ret THEN "Returning" ELSE "Ranging"

outsideWalk == <<direntsVars, iterVars>>

walkArgs == <<walkImpl, walkIter, walkN, tree, skipPtr>>

InitWalk ==
    /\ walkImpl \in WalkImpls
    /\ walkIter \in WalkIters(walkImpl)
    /\ walkN \in (IF walkImpl = "walkDirSorted:265" THEN {0} ELSE WalkNs)
    /\ tree \in Trees
    /\ skipPtr \in {"nil", "set"}
    /\ skipDir = FALSE
    /\ stack = <<>>
    /\ wdir = BaseDir
    /\ wret = FALSE
    /\ wpc = "Opening"
    /\ wyielded = <<>>
    /\ wstopped = FALSE
    /\ opened = <<>>
    /\ closed = <<>>
    /\ wfault = FALSE
    /\ skipEver = FALSE
    /\ setAt = {}
    /\ DirentsIdle
    /\ IterIdle

\* yield(nil, err) at lines 219, 225, 232 (136, 142, 149): the consumer's
\* answer is not looked at.  A yield called after the consumer's loop body
\* returned false panics in the Go runtime.
YieldError(err, next) ==
    IF wstopped
    THEN wpc' = "Panicked" /\ UNCHANGED <<wyielded, wstopped>>
    ELSE /\ wyielded' = Append(wyielded, WalkElement(NilDirAndEntry.dir, NilDirAndEntry.entry, err))
         /\ \E ok \in BOOLEAN : wstopped' = ~ok
         /\ wpc' = next

\* Lines 217, 223-229 (134, 140-146): openDir(baseDir) returns the
\* directory; its Close is deferred.
WalkOpen ==
    /\ wpc = "Opening"
    /\ opened' = Append(opened, wdir)
    /\ stack' = Append(stack, Frame(wdir, tree[wdir]))
    /\ wpc' = "Calling"
    /\ UNCHANGED <<walkArgs, skipDir, wdir, wret, wyielded, wstopped, closed, wfault, skipEver, setAt>>
    /\ UNCHANGED outsideWalk

\* Lines 217-221 (134-138): openDir fails; yield(nil, err), return true.
WalkOpenFails ==
    /\ wpc = "Opening"
    /\ opened' = Append(opened, wdir)
    /\ wfault' = TRUE
    /\ wret' = TRUE
    /\ YieldError("ENOENT", Resume(stack, TRUE))
    /\ UNCHANGED <<walkArgs, skipDir, stack, wdir, closed, skipEver, setAt>>
    /\ UNCHANGED outsideWalk

\* Lines 231-235 (148-152): the ReadDir of NewReadDirIter fails, the
\* iterator hands (nil, err) to the loop body, which yields it and returns
\* true.
WalkReadDirFails ==
    /\ wpc = "Calling"
    /\ \E r \in WalkOutcomes(Top) :
        /\ WalkFatal(r.err)
        /\ stack' = SetTop([Top EXCEPT !.file = r.rest, !.called = TRUE])
        /\ YieldError(r.err, "Returning")
    /\ wfault' = TRUE
    /\ wret' = TRUE
    /\ UNCHANGED <<walkArgs, skipDir, wdir, opened, closed, skipEver, setAt>>
    /\ UNCHANGED outsideWalk

\* Line 231 (148): the ReadDir of NewReadDirIter returns a slice, with a nil
\* error or io.EOF.
WalkReadDirReturns ==
    /\ wpc = "Calling"
    /\ \E r \in WalkOutcomes(Top) :
        /\ ~WalkFatal(r.err)
        /\ stack' = SetTop([Top EXCEPT !.file = r.rest, !.slice = r.de, !.idx = 0,
                                       !.eof = (r.err = "EOF"), !.called = TRUE])
    /\ wpc' = "Ranging"
    /\ UNCHANGED <<walkArgs, skipDir, wdir, wret, wyielded, wstopped, opened, closed, wfault, skipEver, setAt>>
    /\ UNCHANGED outsideWalk

\* Lines 236-239 (153-156): the next entry of the slice goes to the
\* consumer as DirAndEntry{dir: baseDir, entry: entry}.
WalkYield ==
    /\ wpc = "Ranging"
    /\ Top.idx < Len(Top.slice)
    /\ IF wstopped
       THEN wpc' = "Panicked" /\ UNCHANGED <<stack, wyielded>>
       ELSE /\ stack' = SetTop([Top EXCEPT !.idx = @ + 1])
            /\ wyielded' = Append(wyielded, WalkElement(Top.dir, Top.slice[Top.idx + 1], "nil"))
            /\ wpc' = "Yielding"
    /\ UNCHANGED <<walkArgs, skipDir, wdir, wret, wstopped, opened, closed, wfault, skipEver, setAt>>
    /\ UNCHANGED outsideWalk

\* Lines 239-241 (156-158): the consumer returns false; walkDir returns
\* true.
WalkConsumerStop ==
    /\ wpc = "Yielding"
    /\ wstopped' = TRUE
    /\ wret' = TRUE
    /\ wpc' = "Returning"
    /\ UNCHANGED <<walkArgs, skipDir, stack, wdir, wyielded, opened, closed, wfault, skipEver, setAt>>
    /\ UNCHANGED outsideWalk

\* Variant: walkDir is not called on the subdirectory.
WalkConsumerContinue_NoDescend ==
    /\ wpc = "Yielding"
    /\ \E set \in (IF skipPtr = "nil" THEN {FALSE} ELSE BOOLEAN) :
        LET entry == Top.slice[Top.idx]
            flag == skipDir \/ set
        IN /\ skipEver' = (skipEver \/ set)
           /\ setAt' = (IF set THEN setAt \cup {Len(wyielded)} ELSE setAt)
           /\ skipDir' = (IF entry.isDir /\ skipPtr # "nil" /\ flag THEN FALSE ELSE flag)
           /\ wpc' = "Ranging"
    /\ UNCHANGED <<walkArgs, stack, wdir, wret, wyielded, wstopped, opened, closed, wfault>>
    /\ UNCHANGED outsideWalk

\* Variant: *skipDir is tested and cleared before entry.IsDir().
WalkConsumerContinue_ClearAlways ==
    /\ wpc = "Yielding"
    /\ \E set \in (IF skipPtr = "nil" THEN {FALSE} ELSE BOOLEAN) :
        LET entry == Top.slice[Top.idx]
            flag == skipDir \/ set
        IN /\ skipEver' = (skipEver \/ set)
           /\ setAt' = (IF set THEN setAt \cup {Len(wyielded)} ELSE setAt)
           /\ skipDir' = FALSE
           /\ IF entry.isDir /\ ~(skipPtr # "nil" /\ flag)
              THEN wdir' = Join(Top.dir, entry.name) /\ wpc' = "Opening"
              ELSE wpc' = "Ranging" /\ UNCHANGED wdir
    /\ UNCHANGED <<walkArgs, stack, wret, wyielded, wstopped, opened, closed, wfault>>
    /\ UNCHANGED outsideWalk

\* Variant: *skipDir is not looked at.
WalkConsumerContinue_IgnoreSkip ==
    /\ wpc = "Yielding"
    /\ \E set \in (IF skipPtr = "nil" THEN {FALSE} ELSE BOOLEAN) :
        LET entry == Top.slice[Top.idx]
            flag == skipDir \/ set
        IN /\ skipEver' = (skipEver \/ set)
           /\ setAt' = (IF set THEN setAt \cup {Len(wyielded)} ELSE setAt)
           /\ skipDir' = flag
           /\ IF entry.isDir
              THEN wdir' = Join(Top.dir, entry.name) /\ wpc' = "Opening"
              ELSE wpc' = "Ranging" /\ UNCHANGED wdir
    /\ UNCHANGED <<walkArgs, stack, wret, wyielded, wstopped, opened, closed, wfault>>
    /\ UNCHANGED outsideWalk

\* Lines 242-250 (159-165): the consumer returns true, having set *skipDir
\* or not.  For a directory entry a true *skipDir is cleared and the loop
\* goes on; otherwise walkDir is called on the subdirectory.
WalkConsumerContinue ==
    /\ wpc = "Yielding"
    /\ \E set \in (IF skipPtr = "nil" THEN {FALSE} ELSE BOOLEAN) :
        LET entry == Top.slice[Top.idx]
            flag == skipDir \/ set
        IN /\ skipEver' = (skipEver \/ set)
           /\ setAt' = (IF set THEN setAt \cup {Len(wyielded)} ELSE setAt)
           /\ IF entry.isDir
              THEN IF skipPtr # "nil" /\ flag
                   THEN skipDir' = FALSE /\ wpc' = "Ranging" /\ UNCHANGED wdir
                   ELSE /\ skipDir' = flag
                        /\ wdir' = Join(Top.dir, entry.name)
                        /\ wpc' = "Opening"
              ELSE skipDir' = flag /\ wpc' = "Ranging" /\ UNCHANGED wdir
    /\ UNCHANGED <<walkArgs, stack, wret, wyielded, wstopped, opened, closed, wfault>>
    /\ UNCHANGED outsideWalk

\* The slice is used up: NewReadDirIter returns, and walkDir returns false
\* (line 252), or calls ReadDir again.
WalkSliceEnd ==
    /\ wpc = "Ranging"
    /\ Top.idx = Len(Top.slice)
    /\ IF WalkLoopExits(Top)
       THEN wret' = FALSE /\ wpc' = "Returning"
       ELSE wpc' = "Calling" /\ UNCHANGED wret
    /\ UNCHANGED <<walkArgs, skipDir, stack, wdir, wyielded, wstopped, opened, closed, wfault, skipEver, setAt>>
    /\ UNCHANGED outsideWalk

\* Lines 223-229 (140-146): the deferred dirFile.Close() of the returning
\* walkDir succeeds; the caller goes on.
WalkClose ==
    /\ wpc = "Returning"
    /\ closed' = Append(closed, Top.dir)
    /\ stack' = Pop
    /\ wpc' = Resume(Pop, wret)
    /\ UNCHANGED <<walkArgs, skipDir, wdir, wret, wyielded, wstopped, opened, wfault, skipEver, setAt>>
    /\ UNCHANGED outsideWalk

\* Lines 224-227 (141-144): the deferred Close fails; yield(nil, err).
WalkCloseFails ==
    /\ wpc = "Returning"
    /\ closed' = Append(closed, Top.dir)
    /\ wfault' = TRUE
    /\ stack' = Pop
    /\ YieldError("EIO", Resume(Pop, wret))
    /\ UNCHANGED <<walkArgs, skipDir, wdir, wret, opened, skipEver, setAt>>
    /\ UNCHANGED outsideWalk

NextWalk ==
    \/ WalkOpen
    \/ WalkOpenFails
    \/ WalkReadDirFails
    \/ WalkReadDirReturns
    \/ WalkYield
    \/ WalkConsumerStop
    \/ WalkConsumerContinue
    \/ WalkSliceEnd
    \/ WalkClose
    \/ WalkCloseFails

SpecWalk == InitWalk /\ [][NextWalk]_vars

\* The walker is one goroutine and the consumer answers every yield: a step
\* that can be taken is taken.
FairSpecWalk == SpecWalk /\ WF_vars(NextWalk)

WalkTypeOK ==
    /\ walkImpl \in WalkImpls
    /\ walkIter \in WalkIters(walkImpl)
    /\ walkN \in (IF walkImpl = "walkDirSorted:265" THEN {0} ELSE WalkNs)
    /\ tree \in Trees
    /\ skipPtr \in {"nil", "set"}
    /\ skipDir \in BOOLEAN
    /\ (skipPtr = "nil" => ~skipDir)
    /\ wdir \in DOMAIN tree
    /\ wret \in BOOLEAN
    /\ wpc \in {"Opening", "Calling", "Ranging", "Yielding", "Returning", "Done", "Panicked"}
    /\ (wpc \in {"Calling", "Ranging", "Yielding", "Returning"} => stack # <<>>)
    /\ (wpc = "Done" => stack = <<>>)
    /\ \A i \in 1..Len(stack) :
        /\ stack[i].dir \in DOMAIN tree
        /\ stack[i].idx \in 0..Len(stack[i].slice)
    /\ \A i \in 1..Len(wyielded) : wyielded[i].err \in {"nil", "EOF", "EIO", "ENOENT"}
    /\ wstopped \in BOOLEAN
    /\ wfault \in BOOLEAN
    /\ skipEver \in BOOLEAN
    /\ setAt \subseteq 1..Len(wyielded)
    /\ (skipEver <=> setAt # {})

\* ------------------------------------------------------------------------
\* Properties of NewReadDirIterRecursive

\* Every file and directory below baseDir, with the directory it is in.
Below(t) ==
    UNION { {WalkElement(p, t[p][i], "nil") : i \in DOMAIN t[p]} : p \in DOMAIN t }

\* *skipDir was never set, nothing failed and the consumer did not stop.
WalkUndisturbed == ~skipEver /\ ~wfault /\ ~wstopped

WalkTimes(x) == Cardinality({i \in 1..Len(wyielded) : wyielded[i] = x})

\* C20: with skipDir nil or never set and no open, read or close error, the
\* walk yields only entries below baseDir, each with the directory that
\* contains it and none twice; when the walk has returned every entry was
\* yielded exactly once; and the walk returns.
C20_WalkYieldsAllOnceAndEnds ==
    /\ [](WalkUndisturbed =>
            /\ \A i \in 1..Len(wyielded) : wyielded[i] \in Below(tree)
            /\ \A x \in Below(tree) : WalkTimes(x) <= 1)
    /\ []((WalkUndisturbed /\ wpc = "Done") =>
            \A x \in Below(tree) : WalkTimes(x) = 1)
    /\ <>(wpc = "Done" \/ ~WalkUndisturbed)

\* The entries the consumer received, without the error elements.
WalkEntries == SelectSeq(wyielded, LAMBDA x : x.err = "nil")

PathOf(x) == Join(x.dir, x.entry.name)

IsPathPrefix(q, p) == Len(q) <= Len(p) /\ SubSeq(p, 1, Len(q)) = q

\* x lies in the subtree of the directory with path q.
InSubtree(x, q) == IsPathPrefix(q, x.dir)

\* The pre-order of the subtree of t at directory p, from the k-th entry of
\* p on, each directory in the order t gives.
RECURSIVE PreOrderFrom(_, _, _)
PreOrderFrom(t, p, k) ==
    IF k > Len(t[p])
    THEN <<>>
    ELSE LET e == t[p][k]
         IN <<WalkElement(p, e, "nil")>>
            \o (IF e.isDir THEN PreOrderFrom(t, Join(p, e.name), 1) ELSE <<>>)
            \o PreOrderFrom(t, p, k + 1)

\* The full walk: for walkDirSorted the lexical pre-order, for walkDir the
\* pre-order with each directory in the order ReadDir returns it.
FullWalk ==
    IF walkImpl = "walkDirSorted:265"
    THEN PreOrderFrom([p \in DOMAIN tree |-> SortByName(tree[p])], BaseDir, 1)
    ELSE PreOrderFrom(tree, BaseDir, 1)

\* C21: the walkers visit in depth-first pre-order.  Every entry below a
\* directory comes after the entry of that directory; the entries of a
\* subtree are consecutive, so all of them come before the next sibling;
\* and without skip and error the sequence yielded is a prefix of the
\* pre-order of the tree, the whole of it when the walk has returned
\* unstopped: the lexical pre-order for NewReadDirIterRecursiveSorted.
C21_PreOrder ==
    /\ \A j \in 1..Len(WalkEntries) :
        WalkEntries[j].dir # BaseDir =>
            \E i \in 1..(j - 1) :
                WalkEntries[i].entry.isDir /\ PathOf(WalkEntries[i]) = WalkEntries[j].dir
    /\ \A i, j, k \in 1..Len(WalkEntries) :
        (i < j /\ j < k /\ WalkEntries[i].entry.isDir
            /\ InSubtree(WalkEntries[k], PathOf(WalkEntries[i])))
        => InSubtree(WalkEntries[j], PathOf(WalkEntries[i]))
    /\ (~skipEver /\ ~wfault) =>
        /\ IsPrefix(wyielded, FullWalk)
        /\ (wpc = "Done" /\ ~wstopped) => wyielded = FullWalk

\* C21 witness: walkDirSorted has walked the deep tree, whose directory a is
\* read as b, f, d; the consumer received a, a/b, a/b/g, a/d, a/f, f.
C21_Witness ==
    /\ walkImpl = "walkDirSorted:265"
    /\ wpc = "Done"
    /\ tree = TreeDeep
    /\ wyielded = << WalkElement(<<>>, DirEnt("a"), "nil"),
                     WalkElement(<<"a">>, DirEnt("b"), "nil"),
                     WalkElement(<<"a", "b">>, FileEnt("g"), "nil"),
                     WalkElement(<<"a">>, DirEnt("d"), "nil"),
                     WalkElement(<<"a">>, FileEnt("f"), "nil"),
                     WalkElement(<<>>, FileEnt("f"), "nil") >>

\* The paths of the directories at whose entry the consumer set *skipDir.
SkippedPaths == {PathOf(wyielded[i]) : i \in {j \in setAt : wyielded[j].entry.isDir}}

\* The consumer set *skipDir only while receiving directory entries.
SetAtDirsOnly == \A i \in setAt : wyielded[i].entry.isDir

\* The full walk without what lies below the skipped directories.
WalkWithout(paths) ==
    SelectSeq(FullWalk, LAMBDA x : \A q \in paths : ~InSubtree(x, q))

\* The consumer answers true to a directory entry with *skipDir set by it.
SkipRequested ==
    /\ wpc = "Yielding"
    /\ wpc' # "Yielding"
    /\ ~wstopped'
    /\ Len(wyielded) \in setAt'
    /\ wyielded[Len(wyielded)].entry.isDir

\* C22: when the consumer sets *skipDir while receiving a directory entry,
\* the walker goes on with the next entry of the same directory without
\* opening anything and with *skipDir false again; a skipped directory is
\* never opened and nothing below it is yielded; and, with no error, the
\* sequence yielded is the full walk without the subtrees of the skipped
\* directories: a prefix of it at any time, all of it when the walk has
\* returned unstopped.
C22_SkipDir ==
    /\ [][SkipRequested =>
            (wpc' = "Ranging" /\ ~skipDir' /\ opened' = opened /\ stack' = stack)]_vars
    /\ [](SetAtDirsOnly =>
            /\ \A q \in SkippedPaths :
                /\ \A i \in 1..Len(opened) : opened[i] # q
                /\ \A i \in 1..Len(WalkEntries) : ~InSubtree(WalkEntries[i], q)
            /\ ~wfault =>
                /\ IsPrefix(wyielded, WalkWithout(SkippedPaths))
                /\ (wpc = "Done" /\ ~wstopped) => wyielded = WalkWithout(SkippedPaths))

\* C22 witness: walkDir (lines 216-253) walked the deep tree and the
\* consumer set *skipDir at a/b: a/b/g was not yielded, the later siblings
\* a/f and a/d and the file f were.
C22_Witness ==
    /\ walkImpl = "walkDir:216"
    /\ wpc = "Done"
    /\ tree = TreeDeep
    /\ setAt = {2}
    /\ ~skipDir
    /\ opened = << <<>>, <<"a">>, <<"a", "d">> >>
    /\ wyielded = << WalkElement(<<>>, DirEnt("a"), "nil"),
                     WalkElement(<<"a">>, DirEnt("b"), "nil"),
                     WalkElement(<<"a">>, FileEnt("f"), "nil"),
                     WalkElement(<<"a">>, DirEnt("d"), "nil"),
                     WalkElement(<<>>, FileEnt("f"), "nil") >>

\* C23: once the consumer has stopped, the walker yields nothing more, does
\* not call yield again (a call that the runtime answers with a panic) and
\* opens no further directory; what the consumer received is, with no
\* error, a prefix of the walk without the skipped subtrees.
C23_StopPropagates ==
    /\ [][wstopped =>
            (wyielded' = wyielded /\ opened' = opened /\ wpc' # "Panicked")]_vars
    /\ []((wstopped /\ ~wfault /\ SetAtDirsOnly) =>
            IsPrefix(wyielded, WalkWithout(SkippedPaths)))

\* The consumer answers true to the entry it has just received.
ConsumerAnswersTrue == wpc = "Yielding" /\ wpc' \in {"Ranging", "Opening"}

LastIsDir == wyielded[Len(wyielded)].entry.isDir

\* C27: *skipDir is read and cleared only right after a directory entry was
\* yielded.  It goes from true to false only when the consumer has answered
\* a directory entry, and that directory is then not descended, wherever in
\* the walk it is; a true value, set while a non-directory entry was
\* received or before, is still true after that entry; and whatever the
\* flag, the next entry of the slice is yielded.
C27_SkipFlagTiming ==
    /\ [][(skipDir /\ ~skipDir') => (ConsumerAnswersTrue /\ LastIsDir)]_vars
    /\ [][(ConsumerAnswersTrue /\ LastIsDir /\ (skipDir \/ Len(wyielded) \in setAt')) =>
            (wpc' = "Ranging" /\ ~skipDir' /\ opened' = opened /\ stack' = stack)]_vars
    /\ [][(ConsumerAnswersTrue /\ ~LastIsDir /\ (skipDir \/ Len(wyielded) \in setAt')) =>
            (wpc' = "Ranging" /\ skipDir')]_vars
    /\ [][(wpc = "Ranging" /\ Top.idx < Len(Top.slice) /\ ~wstopped) =>
            wyielded' = Append(wyielded,
                WalkElement(Top.dir, Top.slice[Top.idx + 1], "nil"))]_vars

\* C27 witness: walkDir (lines 216-253) walked the deep tree; the consumer
\* set *skipDir at the file a/b/g, the flag was still set when a/f was
\* received in the directory above, and a/d, the next directory entry, was
\* yielded but not opened.
C27_Witness ==
    /\ walkImpl = "walkDir:216"
    /\ wpc = "Done"
    /\ tree = TreeDeep
    /\ setAt = {3}
    /\ ~skipDir
    /\ opened = << <<>>, <<"a">>, <<"a", "b">> >>
    /\ wyielded = << WalkElement(<<>>, DirEnt("a"), "nil"),
                     WalkElement(<<"a">>, DirEnt("b"), "nil"),
                     WalkElement(<<"a", "b">>, FileEnt("g"), "nil"),
                     WalkElement(<<"a">>, FileEnt("f"), "nil"),
                     WalkElement(<<"a">>, DirEnt("d"), "nil"),
                     WalkElement(<<>>, FileEnt("f"), "nil") >>

\* ------------------------------------------------------------------------
\* Further properties of Dirents and direntsInBuf

\* C24: for a filled segment of arbitrary bytes every field access of
\* direntsInBuf lies inside the current record and the filled segment, so
\* that no access is out of range (in Go: a panic) and no scan step crashes
\* the sequence, a record shorter than the fixed header included.
C24_FieldAccessInBounds ==
    [][pc = "Decoding" => pc' # "Panicked"]_vars

\* C25: the scan of a filled segment terminates.  A step of the scan either
\* ends it (back to reading, or a panic) or moves the cursor forward by at
\* least 1 and not past the n filled bytes, so that the entries of one
\* segment are at most n; and the scan ends without a yield when fewer
\* bytes remain than the record-length field needs.
C25_ScanTerminates ==
    /\ [][pc = "Decoding" =>
            \/ pc' \in {"Reading", "Panicked"}
            \/ (cursor' >= cursor + 1 /\ cursor' <= n)]_vars
    /\ [][(pc = "Decoding" /\ n - cursor < reclenOff + reclenSize) =>
            (pc' = "Reading" /\ cursor' = cursor /\ yielded' = yielded)]_vars
    /\ [](pc \in {"Decoding", "Yielding"} =>
            (cursor <= n /\ Len(YieldedFrom(reads)) <= cursor))

\* C25 witness: a record of a segment was scanned and yielded, and the scan
\* ended in front of 5 bytes, too few for a record length.
C25_Witness ==
    /\ pc = "Reading"
    /\ readLog # <<>>
    /\ Last(readLog).err = "nil"
    /\ n - cursor = 5
    /\ cursor > 0
    /\ Len(YieldedFrom(reads)) = 1

\* C26: a read of n > 0 bytes does not end the sequence.  With the layout
\* of linux/amd64, when the scan of a segment ends, whether it yielded an
\* entry or none, Dirents is back to reading; and the sequence has ended
\* only after a 0-byte read, after a read error, or after the consumer
\* stopped.
C26_OnlyThreeEnds ==
    /\ [][(LayoutOK /\ pc = "Decoding" /\ pc' \notin {"Decoding", "Yielding"}) =>
            pc' = "Reading"]_vars
    /\ [](LayoutOK =>
            /\ pc \in {"Reading", "Decoding", "Yielding", "Done", "Failed", "Stopped"}
            /\ pc = "Done" => (Last(readLog).n = 0 /\ Last(readLog).err = "nil")
            /\ pc = "Failed" => Last(readLog).err # "nil"
            /\ pc = "Stopped" => stopped)

====
